---- MODULE Spec2Model ----
(***************************************************************************)
(* Model of clean_excel.js (tahamahmood004/excel-product-cleaner).         *)
(*                                                                         *)
(* The file holds two variants of the script.  The first (lines 1-187)     *)
(* extracts sub-lines only from fields whose key contains "spec"; its      *)
(* definitions carry the suffix V1 here.  The second (lines 189-464) is    *)
(* the SKU-aware variant, which extracts sub-lines from every field and    *)
(* derives parent SKUs; its definitions keep the source's names.           *)
(*                                                                         *)
(* A JavaScript string is a sequence of characters, each character a       *)
(* one-character TLA+ string; U+00A0 and U+00C2 are written NBSP, ACIRC.   *)
(* A JavaScript object used as a map is a sequence of <<key, value>>       *)
(* pairs in the order in which the keys were created.                      *)
(***************************************************************************)
EXTENDS Integers, Sequences, FiniteSets, TLC

VARIABLES
  pc,         \* the position of the run
  arg,        \* the arguments of the function that is called
  ret,        \* what the function returned
  opts,       \* main: the options parseArgs returned
  worksheet,  \* main: the data rows of the input sheet (row 1 is the header)
  rowNumber,  \* main: the number of the last row eachRow has visited
  records,    \* main: the records pushed so far
  outSheet    \* main: the rows added to the output sheet

vars == <<pc, arg, ret, opts, worksheet, rowNumber, records, outSheet>>

(***************************************************************************)
(* Characters                                                              *)
(***************************************************************************)
NBSP == "NBSP"
ACIRC == "ACIRC"
LF == "\n"
CR == "\r"

Lowers == <<"a","b","c","d","e","f","g","h","i","j","k","l","m",
            "n","o","p","q","r","s","t","u","v","w","x","y","z">>
Uppers == <<"A","B","C","D","E","F","G","H","I","J","K","L","M",
            "N","O","P","Q","R","S","T","U","V","W","X","Y","Z">>
Digits == {"0","1","2","3","4","5","6","7","8","9"}

Range(s) == {s[i] : i \in 1..Len(s)}

\* String.prototype.toUpperCase / toLowerCase on one character
toUpperCaseChar(c) ==
  IF \E i \in 1..Len(Lowers) : Lowers[i] = c
  THEN Uppers[CHOOSE i \in 1..Len(Lowers) : Lowers[i] = c]
  ELSE c

toLowerCaseChar(c) ==
  IF \E i \in 1..Len(Uppers) : Uppers[i] = c
  THEN Lowers[CHOOSE i \in 1..Len(Uppers) : Uppers[i] = c]
  ELSE c

toUpperCase(s) == [i \in 1..Len(s) |-> toUpperCaseChar(s[i])]
toLowerCase(s) == [i \in 1..Len(s) |-> toLowerCaseChar(s[i])]

\* the regular-expression class \s, which is also what trim() removes
IsSpace(c) == c \in {" ", "\t", LF, CR, NBSP}

\* the regular-expression class [A-Za-z0-9_\-]
IsKeyChar(c) == c \in Range(Lowers) \cup Range(Uppers) \cup Digits \cup {"_", "-"}

(***************************************************************************)
(* String methods                                                          *)
(***************************************************************************)
\* s.slice(from, to) for 0-based from <= to within the string
slice(s, from, to) == IF to <= from THEN <<>> ELSE SubSeq(s, from + 1, to)

\* s.indexOf(c) for a single character: 0-based, -1 when absent
indexOf(s, c) ==
  IF \E i \in 1..Len(s) : s[i] = c
  THEN (CHOOSE i \in 1..Len(s) : s[i] = c /\ \A j \in 1..(i-1) : s[j] # c) - 1
  ELSE -1

\* s.startsWith(p) at 0-based position i, compared case-insensitively or not
MatchesAt(s, i, p, ci) ==
  /\ i + Len(p) <= Len(s)
  /\ \A k \in 1..Len(p) :
       IF ci THEN toLowerCaseChar(s[i + k]) = toLowerCaseChar(p[k])
             ELSE s[i + k] = p[k]

endsWith(s, p) == Len(p) <= Len(s) /\ MatchesAt(s, Len(s) - Len(p), p, FALSE)

trim(s) ==
  IF \A i \in 1..Len(s) : IsSpace(s[i]) THEN <<>>
  ELSE LET a == CHOOSE i \in 1..Len(s) :
                  ~IsSpace(s[i]) /\ \A j \in 1..(i-1) : IsSpace(s[j])
           b == CHOOSE i \in 1..Len(s) :
                  ~IsSpace(s[i]) /\ \A j \in (i+1)..Len(s) : IsSpace(s[j])
       IN SubSeq(s, a, b)

\* the value undefined, and JavaScript truthiness of a string or undefined
Undefined == <<"undefined">>
Truthy(v) == v # Undefined /\ v # <<>>

RECURSIVE Concat(_)
Concat(ss) == IF ss = <<>> THEN <<>> ELSE Head(ss) \o Concat(Tail(ss))

(***************************************************************************)
(* Regular expressions of the script.  A position is 0-based, as in        *)
(* JavaScript; MatchLen is the length of the match that starts at the      *)
(* position, 0 when the pattern does not match there.                      *)
(***************************************************************************)
\* the position after \s* from position j
RECURSIVE SkipSpaces(_, _)
SkipSpaces(s, j) ==
  IF j < Len(s) /\ IsSpace(s[j + 1]) THEN SkipSpaces(s, j + 1) ELSE j

\* the position after [A-Za-z0-9_\-]* from position j
RECURSIVE SkipKeyChars(_, _)
SkipKeyChars(s, j) ==
  IF j < Len(s) /\ IsKeyChar(s[j + 1]) THEN SkipKeyChars(s, j + 1) ELSE j

\* /<br\s*\/?>/gi
MatchBr(s, i) ==
  IF ~MatchesAt(s, i, <<"<", "b", "r">>, TRUE) THEN 0
  ELSE LET j == SkipSpaces(s, i + 3)
           k == IF j < Len(s) /\ s[j + 1] = "/" THEN j + 1 ELSE j
       IN IF k < Len(s) /\ s[k + 1] = ">" THEN k + 1 - i ELSE 0

\* /<[^>]+>/g
MatchTag(s, i) ==
  IF ~(i + 1 < Len(s) /\ s[i + 1] = "<" /\ s[i + 2] # ">") THEN 0
  ELSE IF \E j \in (i + 3)..Len(s) : s[j] = ">"
       THEN (CHOOSE j \in (i + 3)..Len(s) :
               s[j] = ">" /\ \A m \in (i + 3)..(j - 1) : s[m] # ">") - i
       ELSE 0

\* a literal pattern, case-insensitive (the i flag) or not
MatchLiteral(s, i, p, ci) == IF MatchesAt(s, i, p, ci) THEN Len(p) ELSE 0

MatchLen(pat, s, i) ==
  CASE pat = "nbsp" -> MatchLiteral(s, i, <<"&","n","b","s","p",";">>, TRUE)
    [] pat = "br"   -> MatchBr(s, i)
    [] pat = "/p"   -> MatchLiteral(s, i, <<"<","/","p",">">>, TRUE)
    [] pat = "/li"  -> MatchLiteral(s, i, <<"<","/","l","i",">">>, TRUE)
    [] pat = "/div" -> MatchLiteral(s, i, <<"<","/","d","i","v",">">>, TRUE)
    [] pat = "tag"  -> MatchTag(s, i)
    [] pat = "A0"   -> MatchLiteral(s, i, <<NBSP>>, FALSE)
    [] pat = "C2"   -> MatchLiteral(s, i, <<ACIRC>>, FALSE)
    [] pat = "\\r"  -> MatchLiteral(s, i, <<CR>>, FALSE)

\* s.replace(/pat/g, repl): the matches are found left to right and do not
\* overlap; the replacement text is not scanned again
RECURSIVE ReplaceFrom(_, _, _, _)
ReplaceFrom(s, i, pat, repl) ==
  IF i >= Len(s) THEN <<>>
  ELSE LET n == MatchLen(pat, s, i)
       IN IF n > 0 THEN repl \o ReplaceFrom(s, i + n, pat, repl)
          ELSE <<s[i + 1]>> \o ReplaceFrom(s, i + 1, pat, repl)

replace(s, pat, repl) == ReplaceFrom(s, 0, pat, repl)

(***************************************************************************)
(* he.decode (the "he" package, default options).  One left-to-right pass  *)
(* over /&(name);|&(legacy name)(?!;)([=a-zA-Z0-9]?)|.../g; the named      *)
(* references modelled are amp, lt, gt, quot and nbsp, each of which is    *)
(* also a legacy name (decoded without its semicolon).  A reference that   *)
(* is not recognised is left as it is.  The decoded text is not decoded    *)
(* again.                                                                  *)
(***************************************************************************)
EntityNames ==
  << <<"a","m","p">>, <<"l","t">>, <<"g","t">>, <<"q","u","o","t">>, <<"n","b","s","p">> >>
EntityChars == << "&", "<", ">", "\"", NBSP >>

\* <<length of the match at position i, its replacement>>; <<0, <<>>>> when none
heMatch(s, i) ==
  IF ~(i < Len(s) /\ s[i + 1] = "&") THEN <<0, <<>>>>
  ELSE IF \E e \in 1..Len(EntityNames) : MatchesAt(s, i + 1, EntityNames[e], FALSE)
       THEN LET e == CHOOSE e \in 1..Len(EntityNames) :
                       MatchesAt(s, i + 1, EntityNames[e], FALSE)
                j == i + 1 + Len(EntityNames[e])
            IN IF j < Len(s) /\ s[j + 1] = ";"
               THEN <<j + 1 - i, <<EntityChars[e]>> >>
               ELSE IF j < Len(s) /\ (IsKeyChar(s[j + 1]) \/ s[j + 1] = "=")
                                  /\ s[j + 1] \notin {"_", "-"}
                    THEN <<j + 1 - i, <<EntityChars[e], s[j + 1]>> >>
                    ELSE <<j - i, <<EntityChars[e]>> >>
       ELSE <<0, <<>>>>

RECURSIVE heDecodeFrom(_, _)
heDecodeFrom(s, i) ==
  IF i >= Len(s) THEN <<>>
  ELSE LET m == heMatch(s, i)
       IN IF m[1] > 0 THEN m[2] \o heDecodeFrom(s, i + m[1])
          ELSE <<s[i + 1]>> \o heDecodeFrom(s, i + 1)

heDecode(s) == heDecodeFrom(s, 0)

(***************************************************************************)
(* normalizeHtml, SKU-aware variant                                        *)
(***************************************************************************)
normalizeHtml(value) ==
  IF ~Truthy(value) THEN <<>>
  ELSE LET a == replace(replace(replace(value, "A0", <<" ">>), "C2", <<>>), "nbsp", <<" ">>)
           b == replace(replace(replace(replace(replace(a,
                  "br", <<LF>>), "/p", <<LF>>), "/li", <<LF>>), "/div", <<LF>>), "tag", <<>>)
           c == trim(replace(b, "\\r", <<>>))
       IN heDecode(c)

\* normalizeHtml, first variant: </li> and </div> are not line breaks
normalizeHtmlV1(value) ==
  IF ~Truthy(value) THEN <<>>
  ELSE LET a == replace(replace(replace(value, "A0", <<" ">>), "C2", <<>>), "nbsp", <<" ">>)
           b == replace(replace(replace(a, "br", <<LF>>), "/p", <<LF>>), "tag", <<>>)
           c == trim(replace(b, "\\r", <<>>))
       IN heDecode(c)


(***************************************************************************)
(* splitTopLevelFields: str.split(/,(?=\s*[A-Za-z0-9_\-]+\s*=)/g), then    *)
(* trim each piece and drop the empty ones.  The two variants are the same.*)
(***************************************************************************)
\* the lookahead (?=\s*[A-Za-z0-9_\-]+\s*=) at position j
Lookahead(s, j) ==
  LET a == SkipSpaces(s, j)
      b == SkipKeyChars(s, a)
      c == SkipSpaces(s, b)
  IN b > a /\ c < Len(s) /\ s[c + 1] = "="

\* IsSeparator without the lookahead: every comma separates
IsSeparatorNaive(s, i) == i < Len(s) /\ s[i + 1] = ","

\* the separator matches at position i: a comma followed by the lookahead
IsSeparator(s, i) == i < Len(s) /\ s[i + 1] = "," /\ Lookahead(s, i + 1)

\* the pieces of s from position start on, scanning from position i
RECURSIVE SplitFrom(_, _, _)
SplitFrom(s, start, i) ==
  IF i >= Len(s) THEN <<slice(s, start, Len(s))>>
  ELSE IF IsSeparator(s, i)
       THEN <<slice(s, start, i)>> \o SplitFrom(s, i + 1, i + 1)
       ELSE SplitFrom(s, start, i + 1)

\* .map(s => s.trim()).filter(Boolean)
RECURSIVE TrimAndFilter(_)
TrimAndFilter(pieces) ==
  IF pieces = <<>> THEN <<>>
  ELSE LET t == trim(Head(pieces))
       IN (IF t = <<>> THEN <<>> ELSE <<t>>) \o TrimAndFilter(Tail(pieces))

splitTopLevelFields(str) ==
  IF ~Truthy(str) THEN <<>> ELSE TrimAndFilter(SplitFrom(str, 0, 0))

\* clean.split(/\n+/): the pieces between maximal runs of line feeds
RECURSIVE SplitLinesFrom(_, _, _)
SplitLinesFrom(s, start, i) ==
  IF i >= Len(s) THEN <<slice(s, start, Len(s))>>
  ELSE IF s[i + 1] = LF
       THEN LET j == CHOOSE j \in (i + 1)..Len(s) :
                       /\ \A m \in (i + 1)..j : s[m] = LF
                       /\ (j = Len(s) \/ s[j + 1] # LF)
            IN <<slice(s, start, i)>> \o SplitLinesFrom(s, j, j)
       ELSE SplitLinesFrom(s, start, i + 1)

\* clean.split(/\n+/).map(s => s.trim()).filter(Boolean)
splitLines(clean) == TrimAndFilter(SplitLinesFrom(clean, 0, 0))

(***************************************************************************)
(* The object `out`: own properties in creation order.                     *)
(***************************************************************************)
HasKey(out, k) == \E i \in 1..Len(out) : out[i][1] = k

\* out[k]
Get(out, k) ==
  IF HasKey(out, k) THEN out[CHOOSE i \in 1..Len(out) : out[i][1] = k][2]
  ELSE Undefined

\* out[k] = v
Set(out, k, v) ==
  IF HasKey(out, k)
  THEN [i \in 1..Len(out) |-> IF out[i][1] = k THEN <<k, v>> ELSE out[i]]
  ELSE Append(out, <<k, v>>)

\* delete out[k]
Delete(out, k) == SelectSeq(out, LAMBDA e : e[1] # k)

Separator == <<" ", "|", " ">>

\* out[k] = out[k] ? out[k] + ' | ' + v : v
Merge(out, k, v) ==
  Set(out, k, IF Truthy(Get(out, k)) THEN Get(out, k) \o Separator \o v ELSE v)

\* value with one pair of surrounding quotes dropped
stripQuotes(value) ==
  IF \/ (MatchesAt(value, 0, <<"\"">>, FALSE) /\ endsWith(value, <<"\"">>))
     \/ (MatchesAt(value, 0, <<"'">>, FALSE) /\ endsWith(value, <<"'">>))
  THEN slice(value, 1, Len(value) - 1)
  ELSE value

(***************************************************************************)
(* parseRecord, SKU-aware variant                                          *)
(***************************************************************************)
\* subAttributes keeping the lines without ':' under the note key
RECURSIVE subAttributesWithNote(_, _)
subAttributesWithNote(out, lines) ==
  IF lines = <<>> THEN out
  ELSE LET line == Head(lines)
           cidx == indexOf(line, ":")
           subK == trim(slice(line, 0, cidx))
           subV == trim(slice(line, cidx + 1, Len(line)))
       IN subAttributesWithNote(
            IF cidx > 0 /\ subK # <<>> THEN Merge(out, subK, subV)
            ELSE IF cidx = -1
                 THEN Merge(out, <<"s","p","e","c","_","n","o","t","e">>, line)
                 ELSE out,
            Tail(lines))

\* the loop over the lines of one value
RECURSIVE subAttributes(_, _)
subAttributes(out, lines) ==
  IF lines = <<>> THEN out
  ELSE LET line == Head(lines)
           cidx == indexOf(line, ":")
           subK == trim(slice(line, 0, cidx))
           subV == trim(slice(line, cidx + 1, Len(line)))
       IN subAttributes(IF cidx > 0 /\ subK # <<>> THEN Merge(out, subK, subV) ELSE out,
                        Tail(lines))

\* parseField leaving out the key of a field whose key contains "spec"
parseFieldSpecSkipped(out, f) ==
  LET idx == indexOf(f, "=") IN
  IF idx = -1 THEN out
  ELSE LET key == trim(slice(f, 0, idx))
           value == stripQuotes(trim(slice(f, idx + 1, Len(f))))
           clean == normalizeHtml(value)
           main == IF key # <<>> /\ ~(\E i \in 0..Len(key) :
                                       MatchesAt(key, i, <<"s","p","e","c">>, TRUE))
                   THEN Merge(out, key, clean) ELSE out
       IN subAttributes(main, splitLines(clean))

\* the body of the loop over the fields
parseField(out, f) ==
  LET idx == indexOf(f, "=") IN
  IF idx = -1 THEN out
  ELSE LET key == trim(slice(f, 0, idx))
           value == stripQuotes(trim(slice(f, idx + 1, Len(f))))
           clean == normalizeHtml(value)
           main == IF key # <<>> THEN Merge(out, key, clean) ELSE out
       IN subAttributes(main, splitLines(clean))

RECURSIVE parseFields(_, _)
parseFields(out, fields) ==
  IF fields = <<>> THEN out
  ELSE parseFields(parseField(out, Head(fields)), Tail(fields))

\* delete out['sku']; delete out['SKU']; delete out['Sku'];
deleteSku(out) ==
  Delete(Delete(Delete(out, <<"s","k","u">>), <<"S","K","U">>), <<"S","k","u">>)

parseRecord(rawString) == deleteSku(parseFields(<<>>, splitTopLevelFields(rawString)))

(***************************************************************************)
(* parseRecord, first variant                                              *)
(***************************************************************************)
\* /spec/i.test(key)
testSpec(key) ==
  \E i \in 0..Len(key) : MatchesAt(key, i, <<"s","p","e","c">>, TRUE)

SpecNote == <<"s","p","e","c","_","n","o","t","e">>

RECURSIVE specLinesV1(_, _)
specLinesV1(out, lines) ==
  IF lines = <<>> THEN out
  ELSE LET line == Head(lines)
           i == indexOf(line, ":")
           sKey == trim(slice(line, 0, i))
           sVal == trim(slice(line, i + 1, Len(line)))
       IN specLinesV1(IF i # -1
                      THEN (IF sKey = <<>> THEN out ELSE Merge(out, sKey, sVal))
                      ELSE Merge(out, SpecNote, line),
                      Tail(lines))

parseFieldV1(out, f) ==
  LET idx == indexOf(f, "=") IN
  IF idx = -1 THEN out
  ELSE LET key == trim(slice(f, 0, idx))
           value == stripQuotes(trim(slice(f, idx + 1, Len(f))))
       IN IF testSpec(key)
          THEN specLinesV1(out, splitLines(normalizeHtmlV1(value)))
          ELSE Merge(out, key, normalizeHtmlV1(value))

RECURSIVE parseFieldsV1(_, _)
parseFieldsV1(out, fields) ==
  IF fields = <<>> THEN out
  ELSE parseFieldsV1(parseFieldV1(out, Head(fields)), Tail(fields))

parseRecordV1(rawString) == parseFieldsV1(<<>>, splitTopLevelFields(rawString))

(***************************************************************************)
(* deriveParentSKU                                                         *)
(***************************************************************************)
\* deriveParentSKU preferring the longest matching suffix to the first one
RECURSIVE deriveParentLongest(_, _)
deriveParentLongest(sku, suffixesArr) ==
  IF ~Truthy(sku) THEN <<>>
  ELSE IF suffixesArr = <<>> THEN <<>>
  ELSE LET U == toUpperCase(sku)
           S == trim(toUpperCase(Head(suffixesArr)))
           rest == deriveParentLongest(sku, Tail(suffixesArr))
           here == slice(sku, 0, Len(sku) - Len(S))
       IN IF S = <<>> \/ ~endsWith(U, S) THEN rest
          ELSE IF rest # <<>> /\ Len(rest) < Len(here) THEN rest ELSE here

\* deriveParentSKU falling back to the identifier when no suffix matches
RECURSIVE deriveParentOrSelf(_, _)
deriveParentOrSelf(sku, suffixesArr) ==
  IF ~Truthy(sku) THEN <<>>
  ELSE IF suffixesArr = <<>> THEN sku
  ELSE LET U == toUpperCase(sku)
           S == trim(toUpperCase(Head(suffixesArr)))
       IN IF S = <<>> THEN deriveParentOrSelf(sku, Tail(suffixesArr))
          ELSE IF endsWith(U, S) THEN slice(sku, 0, Len(sku) - Len(S))
          ELSE deriveParentOrSelf(sku, Tail(suffixesArr))

RECURSIVE deriveParentSKU(_, _)
deriveParentSKU(sku, suffixesArr) ==
  IF ~Truthy(sku) THEN <<>>
  ELSE IF suffixesArr = <<>> THEN <<>>
  ELSE LET U == toUpperCase(sku)
           S == trim(toUpperCase(Head(suffixesArr)))
       IN IF S = <<>> THEN deriveParentSKU(sku, Tail(suffixesArr))
          ELSE IF endsWith(U, S) THEN slice(sku, 0, Len(sku) - Len(S))
          ELSE deriveParentSKU(sku, Tail(suffixesArr))


(***************************************************************************)
(* Bounded inputs                                                          *)
(***************************************************************************)
SeqsUpTo(S, n) == UNION {[1..k -> S] : k \in 0..n}

\* the most pieces a value is built from
MaxPieces == 3

TagPieces ==
  { <<"<","b","r"," ","/",">">>, <<"<","/","p",">">>, <<"<","/","l","i",">">>,
    <<"<","/","d","i","v",">">>, <<"<","b",">">> }
EntityPieces ==
  { <<"&","a","m","p",";">>, <<"&","l","t",";">>, <<"&","g","t",";">>,
    <<"&","n","b","s","p",";">> }
TextPieces == { <<"a">>, <<"<">>, <<" ">>, <<NBSP>>, <<CR>> }

NormalizePieces == TagPieces \cup EntityPieces \cup TextPieces

\* the main program's variables, while a function is run on its own
MainIdle ==
  /\ opts = <<>>
  /\ worksheet = <<>>
  /\ rowNumber = 0
  /\ records = <<>>
  /\ outSheet = <<>>

(***************************************************************************)
(* normalizeHtml run on its own, and run again on its own result           *)
(***************************************************************************)
InitNormalize ==
  /\ pc = "call"
  /\ \E ps \in SeqsUpTo(NormalizePieces, MaxPieces), variant \in {1, 2} :
       arg = [pieces |-> ps, value |-> Concat(ps), variant |-> variant]
  /\ ret = <<>>
  /\ MainIdle

normalizeVariant(variant, value) ==
  IF variant = 1 THEN normalizeHtmlV1(value) ELSE normalizeHtml(value)

Normalize ==
  /\ pc = "call"
  /\ pc' = "returned"
  /\ ret' = [v |-> normalizeVariant(arg.variant, arg.value)]
  /\ UNCHANGED <<arg, opts, worksheet, rowNumber, records, outSheet>>

NormalizeAgain ==
  /\ pc = "returned"
  /\ pc' = "again"
  /\ ret' = [v |-> ret.v, again |-> normalizeVariant(arg.variant, ret.v)]
  /\ UNCHANGED <<arg, opts, worksheet, rowNumber, records, outSheet>>

NextNormalize == Normalize \/ NormalizeAgain

SpecNormalize == InitNormalize /\ [][NextNormalize]_vars


(***************************************************************************)
(* Claims about normalizeHtml                                              *)
(***************************************************************************)
\* s holds a named character reference at some position
HasEntityEscape(s) ==
  \E i \in 0..Len(s), e \in 1..Len(EntityNames) :
    MatchesAt(s, i, <<"&">> \o EntityNames[e] \o <<";">>, FALSE)

\* C6: the output of normalizeHtml holds no '<', no '>' and no character
\* reference, whatever the input.
NoMarkupLeakage ==
  pc \in {"returned", "again"} =>
    /\ "<" \notin Range(ret.v)
    /\ ">" \notin Range(ret.v)
    /\ ~HasEntityEscape(ret.v)

\* C9: normalizing the output of normalizeHtml again changes nothing, for
\* every input built only from tags and character references.
NormalizeIdempotent ==
  (pc = "again" /\ Range(arg.pieces) \subseteq TagPieces \cup EntityPieces) =>
    ret.again = ret.v


(***************************************************************************)
(* splitTopLevelFields run on its own                                      *)
(***************************************************************************)
\* the longest blob handed to splitTopLevelFields
MaxStrLen == 5

SplitChars == {",", "=", " ", "k", ":"}

InitSplit ==
  /\ pc = "call"
  /\ \E s \in SeqsUpTo(SplitChars, MaxStrLen) \cup {Undefined} : arg = [str |-> s]
  /\ ret = <<>>
  /\ MainIdle

Split ==
  /\ pc = "call"
  /\ pc' = "returned"
  /\ ret' = splitTopLevelFields(arg.str)
  /\ UNCHANGED <<arg, opts, worksheet, rowNumber, records, outSheet>>

NextSplit == Split

SpecSplit == InitSplit /\ [][NextSplit]_vars

\* the commas of s (1-based) that are followed by optional whitespace, a
\* token of key characters, optional whitespace and '='
KeyPatternAfter(s, i) ==
  \E a \in i..Len(s), b \in i..Len(s), c \in i..Len(s) :
    /\ a < b /\ b <= c /\ c < Len(s)
    /\ \A m \in (i + 1)..a : IsSpace(s[m])
    /\ \A m \in (a + 1)..b : IsKeyChar(s[m])
    /\ \A m \in (b + 1)..c : IsSpace(s[m])
    /\ s[c + 1] = "="

SplitPoints(s) == {i \in 1..Len(s) : s[i] = "," /\ KeyPatternAfter(s, i)}

\* the segment of s that starts after boundary x: it ends before the next
\* split point, or at the end of s
SegmentAfter(s, x) ==
  LET y == IF \E z \in SplitPoints(s) : z > x
           THEN CHOOSE z \in SplitPoints(s) :
                  z > x /\ \A w \in SplitPoints(s) : w > x => z <= w
           ELSE Len(s) + 1
  IN SubSeq(s, x + 1, y - 1)

\* t is p without its leading and trailing whitespace, and is not empty
IsTrimOf(t, p) ==
  \E x \in 1..Len(p), y \in 1..Len(p) :
    /\ x <= y
    /\ t = SubSeq(p, x, y)
    /\ ~IsSpace(p[x]) /\ ~IsSpace(p[y])
    /\ \A m \in 1..(x - 1) : IsSpace(p[m])
    /\ \A m \in (y + 1)..Len(p) : IsSpace(p[m])

\* the boundaries after which a segment with something in it starts
SegmentStarts(s) ==
  {x \in SplitPoints(s) \cup {0} :
     \E m \in 1..Len(SegmentAfter(s, x)) : ~IsSpace(SegmentAfter(s, x)[m])}

\* C5: splitTopLevelFields splits at exactly the commas that are followed by
\* the key pattern; the result is the segments between those commas, each
\* trimmed, the empty ones dropped, in their order in the blob; a falsy blob
\* gives the empty sequence.
SplitAtKeyCommasOnly ==
  pc = "returned" =>
    IF ~Truthy(arg.str) THEN ret = <<>>
    ELSE /\ Len(ret) = Cardinality(SegmentStarts(arg.str))
         /\ \A x \in SegmentStarts(arg.str) :
              LET n == Cardinality({z \in SegmentStarts(arg.str) : z <= x})
              IN IsTrimOf(ret[n], SegmentAfter(arg.str, x))

\* a blob split at one comma and not at another, which stays inside a value
SplitWitness ==
  /\ pc = "returned"
  /\ Truthy(arg.str)
  /\ Len(ret) = 2
  /\ \E i \in 1..Len(arg.str) : arg.str[i] = "," /\ i \notin SplitPoints(arg.str)
  /\ \E i \in 1..Len(ret[1]) : ret[1][i] = ","


(***************************************************************************)
(* deriveParentSKU run on its own                                          *)
(***************************************************************************)
\* the most suffix tokens in the list
MaxSuffixes == 3

Skus ==
  { <<>>, <<"A","1">>, <<"A","1","R","E","D">>, <<"A","1","r","e","d">>,
    <<"R","E","D">>, <<"A","1","G","B","L">>, <<"a","1","B","l">> }

\* suffix tokens as main hands them over, trimmed; the empty token is what
\* the function itself skips
SuffixTokens ==
  { <<>>, <<"R","E","D">>, <<"r","e","d">>, <<"B","L">>, <<"G","B","L">>, <<"L">> }

InitDerive ==
  /\ pc = "call"
  /\ \E id \in Skus, sufs \in SeqsUpTo(SuffixTokens, MaxSuffixes) :
       arg = [sku |-> id, suffixesArr |-> sufs]
  /\ ret = <<>>
  /\ MainIdle

Derive ==
  /\ pc = "call"
  /\ pc' = "returned"
  /\ ret' = deriveParentSKU(arg.sku, arg.suffixesArr)
  /\ UNCHANGED <<arg, opts, worksheet, rowNumber, records, outSheet>>

NextDerive == Derive

SpecDerive == InitDerive /\ [][NextDerive]_vars

\* the identifier ends with the token, compared case-insensitively, and the
\* token is not empty
MatchesTail(id, tok) ==
  /\ tok # <<>>
  /\ Len(tok) <= Len(id)
  /\ \A k \in 1..Len(tok) :
       toUpperCaseChar(id[Len(id) - Len(tok) + k]) = toUpperCaseChar(tok[k])

\* the index of the first token of the list that matches the identifier's tail
IsFirstMatch(id, sufs, n) ==
  /\ n \in 1..Len(sufs)
  /\ MatchesTail(id, sufs[n])
  /\ \A m \in 1..(n - 1) : ~MatchesTail(id, sufs[m])

\* C3: the first token, in list order, that the identifier ends with
\* (case-insensitively, empty tokens skipped) decides the result: the
\* identifier in its own case without its last Len(token) characters; a later
\* token is never applied, even a longer one.
FirstSuffixWins ==
  pc = "returned" =>
    \A n \in 1..Len(arg.suffixesArr) :
      IsFirstMatch(arg.sku, arg.suffixesArr, n) =>
        /\ Len(ret) = Len(arg.sku) - Len(arg.suffixesArr[n])
        /\ ret \o SubSeq(arg.sku, Len(ret) + 1, Len(arg.sku)) = arg.sku

\* the first match is applied although an empty token comes before it and a
\* longer matching token after it, and the identifier is not in upper case
FirstSuffixWitness ==
  /\ pc = "returned"
  /\ \E n \in 1..Len(arg.suffixesArr), m \in 1..Len(arg.suffixesArr) :
       /\ IsFirstMatch(arg.sku, arg.suffixesArr, n)
       /\ m > n
       /\ MatchesTail(arg.sku, arg.suffixesArr[m])
       /\ Len(arg.suffixesArr[m]) > Len(arg.suffixesArr[n])
       /\ arg.suffixesArr[1] = <<>>
  /\ ret # <<>>
  /\ ret # toUpperCase(ret)

MaxFields == 2

\* col=Blue  col=Black  col=  sku=A1  sKu=A1  Spec=W: 4<br>n1
\* d=col: Red<br>n2  e=Sku: 9</p>skU: 8  =v  junk  7=x  g=: v  =a: b
FieldPieces ==
  { <<"c","o","l","=","B","l","u","e">>,
    <<"c","o","l","=","B","l","a","c","k">>,
    <<"c","o","l","=">>,
    <<"s","k","u","=","A","1">>,
    <<"s","K","u","=","A","1">>,
    <<"S","p","e","c","=","W",":"," ","4","<","b","r",">","n","1">>,
    <<"d","=","c","o","l",":"," ","R","e","d","<","b","r",">","n","2">>,
    <<"e","=","S","k","u",":"," ","9","<","/","p",">","s","k","U",":"," ","8">>,
    <<"=","v">>,
    <<"j","u","n","k">>,
    <<"7","=","x">>,
    <<"g","=",":"," ","v">>,
    <<"=","a",":"," ","b">> }

\* the fields joined by commas
RECURSIVE JoinFields(_)
JoinFields(fs) ==
  IF fs = <<>> THEN <<>>
  ELSE IF Len(fs) = 1 THEN fs[1]
  ELSE fs[1] \o <<",">> \o JoinFields(Tail(fs))

InitParse ==
  /\ pc = "call"
  /\ \E fs \in SeqsUpTo(FieldPieces, MaxFields), mode \in {"specOnly", "always"} :
       arg = [rawString |-> JoinFields(fs), subLineMode |-> mode]
  /\ ret = <<>>
  /\ MainIdle

\* the first variant extracts sub-lines from spec fields only, the SKU-aware
\* variant from every field
Parse ==
  /\ pc = "call"
  /\ pc' = "returned"
  /\ ret' = IF arg.subLineMode = "specOnly" THEN parseRecordV1(arg.rawString)
            ELSE parseRecord(arg.rawString)
  /\ UNCHANGED <<arg, opts, worksheet, rowNumber, records, outSheet>>

NextParse == Parse

SpecParse == InitParse /\ [][NextParse]_vars


(***************************************************************************)
(* What the claims say a blob contributes to its record, entry by entry    *)
(***************************************************************************)
\* the text of a field before and after its first '='
HasEquals(f) == "=" \in Range(f)
KeyOf(f) == trim(SubSeq(f, 1, indexOf(f, "=")))
CleanOf(f, mode) ==
  normalizeVariant(IF mode = "specOnly" THEN 1 ELSE 2,
                   stripQuotes(trim(SubSeq(f, indexOf(f, "=") + 2, Len(f)))))

IsSpecKey(k) ==
  \E i \in 1..Len(k) : i + 3 <= Len(k) /\ toLowerCase(SubSeq(k, i, i + 3)) = <<"s","p","e","c">>

\* the keys the SKU-aware variant deletes before it returns
DeletedKeys == { <<"s","k","u">>, <<"S","K","U">>, <<"S","k","u">> }

\* the top-level entry of a field: in always mode every field with a
\* non-empty key has one, in specOnly mode every field whose key is not a
\* spec key
TopEntry(f, mode) ==
  IF mode = "always"
  THEN (IF KeyOf(f) # <<>> THEN << <<KeyOf(f), CleanOf(f, mode)>> >> ELSE <<>>)
  ELSE (IF IsSpecKey(KeyOf(f)) THEN <<>> ELSE << <<KeyOf(f), CleanOf(f, mode)>> >>)

\* sub-lines are extracted from every field in always mode, from the spec
\* fields in specOnly mode
Extracts(f, mode) == mode = "always" \/ IsSpecKey(KeyOf(f))

\* the entry of one line: label -> text for a line with text before its
\* first ':', the note for a line without ':' in specOnly mode
LineEntry(line, mode) ==
  IF ":" \in Range(line)
  THEN LET c == CHOOSE i \in 1..Len(line) :
                  line[i] = ":" /\ \A j \in 1..(i - 1) : line[j] # ":"
       IN IF trim(SubSeq(line, 1, c - 1)) # <<>>
          THEN << <<trim(SubSeq(line, 1, c - 1)), trim(SubSeq(line, c + 1, Len(line)))>> >>
          ELSE <<>>
  ELSE IF mode = "specOnly" THEN << <<SpecNote, line>> >> ELSE <<>>

SubEntries(f, mode) ==
  IF Extracts(f, mode)
  THEN LET lines == splitLines(CleanOf(f, mode))
       IN Concat([j \in 1..Len(lines) |-> LineEntry(lines[j], mode)])
  ELSE <<>>

\* the entries of a blob in encounter order
EntriesOf(a) ==
  LET fs == SelectSeq(splitTopLevelFields(a.rawString), HasEquals)
  IN Concat([n \in 1..Len(fs) |->
               TopEntry(fs[n], a.subLineMode) \o SubEntries(fs[n], a.subLineMode)])

\* the values a blob gives for key k, in encounter order
ValuesOf(a, k) ==
  LET es == SelectSeq(EntriesOf(a), LAMBDA e : e[1] = k)
  IN [n \in 1..Len(es) |-> es[n][2]]

\* the values joined by ' | '
RECURSIVE JoinValues(_)
JoinValues(vs) ==
  IF Len(vs) = 1 THEN vs[1] ELSE vs[1] \o Separator \o JoinValues(Tail(vs))

RECURSIVE MergeAll(_, _)
MergeAll(out, es) ==
  IF es = <<>> THEN out ELSE MergeAll(Merge(out, Head(es)[1], Head(es)[2]), Tail(es))

\* v occurs in w
OccursIn(v, w) == \E i \in 0..(Len(w) - Len(v)) : SubSeq(w, i + 1, i + Len(v)) = v

\* C1: a key that occurs more than once in a blob has, in the record, all
\* its values in encounter order joined by ' | ', the empty ones included.
\* (Stated for the keys the record holds.)
DuplicatesConcatenated ==
  pc = "returned" =>
    \A i \in 1..Len(ret) :
      Len(ValuesOf(arg, ret[i][1])) >= 2 =>
        ret[i][2] = JoinValues(ValuesOf(arg, ret[i][1]))

\* C2: the record of the SKU-aware variant holds no key that is the
\* identifier name in any casing.
NoIdentifierKey ==
  (pc = "returned" /\ arg.subLineMode = "always") =>
    \A i \in 1..Len(ret) : toLowerCase(ret[i][1]) # <<"s","k","u">>

SubLinesExtracted ==
  pc = "returned" =>
    ret = SelectSeq(MergeAll(<<>>, EntriesOf(arg)),
                    LAMBDA e : arg.subLineMode = "always" => e[1] \notin DeletedKeys)

\* always mode: a value with a labelled line, which is extracted, and a line
\* without ':', which is not
SubLinesWitness ==
  /\ pc = "returned"
  /\ arg.subLineMode = "always"
  /\ \E f \in Range(splitTopLevelFields(arg.rawString)) :
       /\ HasEquals(f)
       /\ ~IsSpecKey(KeyOf(f))
       /\ \E l1, l2 \in Range(splitLines(CleanOf(f, "always"))) :
            /\ LineEntry(l1, "always") # <<>>
            /\ HasKey(ret, LineEntry(l1, "always")[1][1])
            /\ ":" \notin Range(l2)
  /\ ~HasKey(ret, SpecNote)

\* specOnly mode: the note is kept, and the labelled line of a field that is
\* not a spec field is not extracted
SubLinesWitnessSpecOnly ==
  /\ pc = "returned"
  /\ arg.subLineMode = "specOnly"
  /\ HasKey(ret, SpecNote)
  /\ \E f \in Range(splitTopLevelFields(arg.rawString)) :
       /\ HasEquals(f)
       /\ ~IsSpecKey(KeyOf(f))
       /\ \E l \in Range(splitLines(CleanOf(f, "specOnly"))) :
            /\ LineEntry(l, "always") # <<>>
            /\ ~HasKey(ret, LineEntry(l, "always")[1][1])


(***************************************************************************)
(* main, SKU-aware variant.  A data row is the sequence of its cell        *)
(* values, Null for a cell without a value; the cells hold plain text.     *)
(* The header row has the identifier column first.                         *)
(***************************************************************************)
Null == <<"null">>

\* headerMap[skuColName]
skuColIdx == 1

\* the most data rows of the sheet
MaxRows == 2

\* A1RED | col=Blue,7=x     A1 | note | d=W: 4<br>n     "" | col=Red
\* (no value) | col=Red     "  " | sku=Z9     B2 | (no value)     B2GBL | junk
DataRows ==
  { <<<<"A","1","R","E","D">>, <<"c","o","l","=","B","l","u","e",",","7","=","x">>>>,
    <<<<"A","1">>, <<"n","o","t","e">>, <<"d","=","W",":"," ","4","<","b","r",">","n">>>>,
    <<<<>>, <<"c","o","l","=","R","e","d">>>>,
    <<Null, <<"c","o","l","=","R","e","d">>>>,
    <<<<" "," ">>, <<"s","k","u","=","Z","9">>>>,
    <<<<"B","2">>, Null>>,
    <<<<"B","2","G","B","L">>, <<"j","u","n","k">>>> }

\* --suffixes=RED, ,bl,GBL
SuffixesOption == <<"R","E","D",","," ",",","b","l",",","G","B","L">>

\* s.split(',')
RECURSIVE splitComma(_, _, _)
splitComma(s, start, i) ==
  IF i >= Len(s) THEN <<slice(s, start, Len(s))>>
  ELSE IF s[i + 1] = "," THEN <<slice(s, start, i)>> \o splitComma(s, i + 1, i + 1)
  ELSE splitComma(s, start, i + 1)

\* a key that is an array index: such keys enumerate first, in ascending order
RECURSIVE ToNumber(_)
ToNumber(k) ==
  IF k = <<>> THEN 0
  ELSE 10 * ToNumber(SubSeq(k, 1, Len(k) - 1))
       + (CHOOSE d \in 0..9 : <<"0","1","2","3","4","5","6","7","8","9">>[d + 1] = k[Len(k)])

IsArrayIndex(k) ==
  /\ k # <<>>
  /\ \A i \in 1..Len(k) : k[i] \in Digits
  /\ (Len(k) = 1 \/ k[1] # "0")
  /\ Len(k) <= 9   \* up to 2^32 - 2; the keys drawn here have few digits

\* Object.keys(out): the array-index keys in ascending order, then the other
\* keys in creation order
ObjectKeys(out) ==
  LET keys == [i \in 1..Len(out) |-> out[i][1]]
  IN SortSeq(SelectSeq(keys, IsArrayIndex), LAMBDA a, b : ToNumber(a) < ToNumber(b))
     \o SelectSeq(keys, LAMBDA k : ~IsArrayIndex(k))

\* Object.entries(out)
ObjectEntries(out) ==
  [i \in 1..Len(out) |-> <<ObjectKeys(out)[i], Get(out, ObjectKeys(out)[i])>>]

\* new Set(); forEach add; Array.from: the keys in the order first seen
RECURSIVE addAll(_, _)
addAll(set, keys) ==
  IF keys = <<>> THEN set
  ELSE addAll(IF \E i \in 1..Len(set) : set[i] = Head(keys) THEN set
              ELSE Append(set, Head(keys)), Tail(keys))

RECURSIVE allKeysOf(_, _)
allKeysOf(set, recs) ==
  IF recs = <<>> THEN set
  ELSE allKeysOf(addAll(set, ObjectKeys(Head(recs).kv)), Tail(recs))

\* c.value && String(c.value).includes('=')
HasBlob(c) == c # Null /\ Truthy(c) /\ "=" \in Range(c)

\* the blob cell of a row: the configured column if it has a value, else the
\* first cell, other than the identifier's, whose text contains '='
blobCellOf(row, blobColIdx) ==
  IF blobColIdx # 0 /\ blobColIdx <= Len(row)
     /\ row[blobColIdx] # Null /\ Truthy(row[blobColIdx])
  THEN row[blobColIdx]
  ELSE IF \E i \in 1..Len(row) : i # skuColIdx /\ HasBlob(row[i])
       THEN row[CHOOSE i \in 1..Len(row) :
                  /\ i # skuColIdx /\ HasBlob(row[i])
                  /\ \A j \in 1..(i - 1) : j = skuColIdx \/ ~HasBlob(row[j])]
       ELSE Null

\* skuValRaw ? String(skuValRaw).trim() : ''
skuOf(row) ==
  IF row[skuColIdx] # Null /\ Truthy(row[skuColIdx]) THEN trim(row[skuColIdx]) ELSE <<>>

Init ==
  /\ pc = "rows"
  /\ arg = <<>>
  /\ ret = <<>>
  /\ \E fmt \in {"wide", "long", "sku-attrs"}, par \in BOOLEAN, blob \in {0, 2} :
       opts = [format |-> fmt, includeParent |-> par, suffixes |-> SuffixesOption,
               blobColIdx |-> blob]
  /\ worksheet \in SeqsUpTo(DataRows, MaxRows)
  /\ rowNumber = 0
  /\ records = <<>>
  /\ outSheet = <<>>

\* eachRow's callback on the header row: if (rowNumber === 1) return
VisitHeader ==
  /\ pc = "rows"
  /\ rowNumber = 0
  /\ rowNumber' = 1
  /\ UNCHANGED <<pc, arg, ret, opts, worksheet, records, outSheet>>

\* eachRow's callback on the next data row
VisitRow ==
  /\ pc = "rows"
  /\ rowNumber >= 1
  /\ rowNumber <= Len(worksheet)
  /\ rowNumber' = rowNumber + 1
  /\ LET row == worksheet[rowNumber]
         id == skuOf(row)
         blobCell == blobCellOf(row, opts.blobColIdx)
     IN records' =
          IF ~Truthy(id) THEN records
          ELSE IF blobCell = Null
               THEN Append(records, [sku |-> id, rowNumber |-> rowNumber + 1, kv |-> <<>>])
               ELSE Append(records, [sku |-> id, rowNumber |-> rowNumber + 1,
                                     kv |-> parseRecord(blobCell)])
  /\ UNCHANGED <<pc, arg, ret, opts, worksheet, outSheet>>

AllRowsVisited == rowNumber = Len(worksheet) + 1

\* if (records.length === 0) { console.log('No records found.'); process.exit(0) }
NoRecords ==
  /\ pc = "rows"
  /\ AllRowsVisited
  /\ records = <<>>
  /\ pc' = "exit"
  /\ UNCHANGED <<arg, ret, opts, worksheet, rowNumber, records, outSheet>>

\* the rows of one record in sku-attrs format
skuAttrsRows(rec, includeParent, suffixesArr) ==
  LET entries == SelectSeq(ObjectEntries(rec.kv),
                           LAMBDA e : Truthy(e[2]) /\ trim(e[2]) # <<>>)
      parent == IF includeParent THEN deriveParentSKU(rec.sku, suffixesArr) ELSE <<>>
  IN IF entries = <<>>
     THEN << IF includeParent THEN <<rec.sku, <<>>, <<>>, parent>>
                              ELSE <<rec.sku, <<>>, <<>> >> >>
     ELSE [i \in 1..Len(entries) |->
             IF includeParent THEN <<rec.sku, entries[i][1], entries[i][2], parent>>
                              ELSE <<rec.sku, entries[i][1], entries[i][2]>>]

WriteSkuAttrs ==
  /\ pc = "rows"
  /\ AllRowsVisited
  /\ records # <<>>
  /\ opts.format = "sku-attrs"
  /\ LET suffixesArr == TrimAndFilter(splitComma(opts.suffixes, 0, 0))
         header == IF opts.includeParent
                   THEN << <<"S","K","U">>, <<"A","t","t","r","i","b","u","t","e">>,
                           <<"V","a","l","u","e">>, <<"P","a","r","e","n","t","S","K","U">> >>
                   ELSE << <<"S","K","U">>, <<"A","t","t","r","i","b","u","t","e">>,
                           <<"V","a","l","u","e">> >>
     IN outSheet' = <<header>> \o
          Concat([i \in 1..Len(records) |->
                    skuAttrsRows(records[i], opts.includeParent, suffixesArr)])
  /\ pc' = "done"
  /\ UNCHANGED <<arg, ret, opts, worksheet, rowNumber, records>>

\* the rows of one record in long format, and the blank row after them
longRows(rec, allKeys) ==
  LET present == SelectSeq(allKeys, LAMBDA k : Truthy(Get(rec.kv, k)))
  IN [i \in 1..Len(present) |-> <<rec.sku, rec.rowNumber, present[i], Get(rec.kv, present[i])>>]
     \o << <<>> >>

WriteLong ==
  /\ pc = "rows"
  /\ AllRowsVisited
  /\ records # <<>>
  /\ opts.format \in {"long", "stacked"}
  /\ LET allKeys == allKeysOf(<<>>, records)
     IN outSheet' =
          << << <<"S","K","U">>, <<"R","o","w">>, <<"A","t","t","r","i","b","u","t","e">>,
                <<"V","a","l","u","e">> >> >>
          \o Concat([i \in 1..Len(records) |-> longRows(records[i], allKeys)])
  /\ pc' = "done"
  /\ UNCHANGED <<arg, ret, opts, worksheet, rowNumber, records>>

\* the row of one record in wide format
wideRow(rec, allKeys) ==
  <<rec.sku, rec.rowNumber>> \o
  [i \in 1..Len(allKeys) |->
     IF Truthy(Get(rec.kv, allKeys[i])) THEN Get(rec.kv, allKeys[i]) ELSE <<>>]

WriteWide ==
  /\ pc = "rows"
  /\ AllRowsVisited
  /\ records # <<>>
  /\ opts.format \notin {"sku-attrs", "long", "stacked"}
  /\ LET allKeys == allKeysOf(<<>>, records)
     IN outSheet' =
          << << <<"S","K","U">>, <<"_","_","r","o","w","N","u","m","b","e","r">> >> \o allKeys >>
          \o [i \in 1..Len(records) |-> wideRow(records[i], allKeys)]
  /\ pc' = "done"
  /\ UNCHANGED <<arg, ret, opts, worksheet, rowNumber, records>>

Next == VisitHeader \/ VisitRow \/ NoRecords \/ WriteSkuAttrs \/ WriteLong \/ WriteWide

Spec == Init /\ [][Next]_vars

\* the data rows (by row number) whose identifier cell is missing or blank
BlankIdRows == {n \in 2..(Len(worksheet) + 1) : skuOf(worksheet[n - 1]) = <<>>}

\* C8: a data row whose identifier is missing or blank gives no row in
\* sku-attrs output, and in wide output it is still rendered, with an empty
\* identifier (in long output so are its attributes).
BlankIdRowsRendered ==
  pc = "done" =>
    \A n \in BlankIdRows :
      /\ opts.format = "sku-attrs" =>
           \A i \in 2..Len(outSheet) : outSheet[i][1] # <<>>
      /\ opts.format = "wide" =>
           \E i \in 2..Len(outSheet) : outSheet[i][1] = <<>> /\ outSheet[i][2] = n
      /\ (opts.format = "long"
          /\ \E e \in Range(parseRecord(blobCellOf(worksheet[n - 1], opts.blobColIdx))) :
               Truthy(e[2])) =>
           \E i \in 2..Len(outSheet) :
             outSheet[i] # <<>> /\ outSheet[i][1] = <<>> /\ outSheet[i][2] = n


(***************************************************************************)
(* The order in which a record's keys enumerate                            *)
(***************************************************************************)
\* the keys of the entries of a blob, each once, in the order first seen
FirstSeenKeys(a) == addAll(<<>>, [n \in 1..Len(EntriesOf(a)) |-> EntriesOf(a)[n][1]])

\* C11: the keys of the record enumerate without duplicates, in the order in
\* which each was first encountered in the blob, the keys made only of
\* digits included.  (Stated for the keys the record holds.)
KeysInFirstSeenOrder ==
  pc = "returned" =>
    /\ \A i, j \in 1..Len(ObjectKeys(ret)) :
         ObjectKeys(ret)[i] = ObjectKeys(ret)[j] => i = j
    /\ ObjectKeys(ret) = SelectSeq(FirstSeenKeys(arg), LAMBDA k : HasKey(ret, k))


(***************************************************************************)
(* Fields without a key                                                    *)
(***************************************************************************)
\* a field with '=' and text before it
HasNonEmptyKey(f) == HasEquals(f) /\ KeyOf(f) # <<>>

\* the record of a list of fields, in either variant
RecordOfFields(fields, mode) ==
  IF mode = "specOnly" THEN parseFieldsV1(<<>>, fields)
  ELSE deleteSku(parseFields(<<>>, fields))

\* C12: in either variant the record has no entry under the empty key, and
\* it is the record of the blob's fields that have '=' and a non-empty key:
\* a field with an empty key or without '=' contributes nothing.
EmptyKeyContributesNothing ==
  pc = "returned" =>
    /\ ~HasKey(ret, <<>>)
    /\ ret = RecordOfFields(SelectSeq(splitTopLevelFields(arg.rawString), HasNonEmptyKey),
                            arg.subLineMode)


====
